---------------------------- MODULE Spec2Model ----------------------------
(***************************************************************************)
(* vtk2raw: conversion of the point-data arrays of a VTK data set into a   *)
(* raw text or binary matrix (src/src/vtk2raw.cxx).                        *)
(*                                                                         *)
(* The module models main, the dispatch on the input file extension, the   *)
(* validation loop of WriteArraysToOutputFile, OpenFile and the two        *)
(* serializers, one action per statement group of the source.              *)
(*                                                                         *)
(* Numbers.  TupleIterator and NumberOfTuples are 64 bit in the source,    *)
(* NumberOfTuplesInEachArray is a 32 bit unsigned int.  A tuple count is   *)
(* the pair [hi, lo] of its base-2^32 digits, so that the narrowing        *)
(* conversion of line 431 is the projection on lo.                         *)
(***************************************************************************)
EXTENDS Integers, Sequences, FiniteSets, TLC

VARIABLES
    pc,                             \* position in the program
    argc, argv,                     \* the command line of main
    InputFile,                      \* result of DetermineInputFileType
    reader,                         \* the VTK reader that was run
    InputPointData,                 \* the arrays of the point data, in order
    BinaryOutputFile,               \* the output mode
    NumberOfComponentsInEachArray,  \* locals of WriteArraysToOutputFile
    NumberOfTuplesInEachArray,
    ColumnCounter,
    NumberOfTuples,                 \* local of the serializers
    ArrayIterator, TupleIterator, ComponentIterator,
    OutputFile,                     \* the std::ofstream
    disk,                           \* the output file in the file system
    faulty,                         \* the output device can fail a write
    writes,                         \* insertions requested on OutputFile
    reads,                          \* GetComponent calls made
    stdout, stderr,                 \* messages printed
    exitStatus,                     \* how the process ended
    derefs,                         \* member accesses through a NULL array
    failPoint,                      \* where the stream went bad
    run, previous                   \* second invocation on the same input

vars == << pc, argc, argv, InputFile, reader, InputPointData,
           BinaryOutputFile, NumberOfComponentsInEachArray,
           NumberOfTuplesInEachArray, ColumnCounter, NumberOfTuples,
           ArrayIterator,
           TupleIterator, ComponentIterator, OutputFile, disk, faulty,
           writes, reads, stdout, stderr, exitStatus, derefs, failPoint,
           run, previous >>

\* what no step of the conversion changes
cliVars == << argc, argv, InputFile, reader, faulty >>

(***************************************************************************)
(* Bounds of the model.                                                    *)
(***************************************************************************)
MaxArrays == 2
MaxComponents == 2
MaxTuples == 2
MaxArgc == 5

(***************************************************************************)
(* Program constants.                                                      *)
(***************************************************************************)
DECIMAL_PRECISION == 16
SizeofDouble == 8
DefaultPrecision == 6
EXIT_SUCCESS == 0

(***************************************************************************)
(* Small helpers.                                                          *)
(***************************************************************************)
\* exitStatus of a process that runs, and of one that was killed
Running == -1
Crashed == -2

\* the output file before the conversion: absent, or left by an earlier use
Stale == [k |-> "stale", v |-> 0, p |-> 0]
NoFile == [exists |-> FALSE, content |-> << >>]
StaleFile == [exists |-> TRUE, content |-> << Stale >>]


NoFail == [reads |-> -1, writes |-> -1]
Garbage == -1

(***************************************************************************)
(* The point data.  An array is NULL (GetArray returns NULL for a slot     *)
(* that holds no vtkDataArray) or has a component count, a tuple count and *)
(* its values: value (t, c) of an array is base + t * comps + c + 1, where *)
(* base is the number of values of the arrays before it, so that the       *)
(* arrays A = [[1,2],[3,4]], B = [[5],[6]] of the documentation are the    *)
(* set with shapes (2 x 2), (1 x 2).                                       *)
(***************************************************************************)
IdCounts == [hi : 0..1, lo : 0..MaxTuples]

Zero64 == [hi |-> 0, lo |-> 0]

NullArray == [null |-> TRUE, comps |-> 0, tuples |-> Zero64, base |-> 0]

Shapes ==
    {NullArray} \cup
    { [null |-> FALSE, comps |-> c, tuples |-> n, base |-> 0] :
        c \in 1..MaxComponents, n \in IdCounts }

RECURSIVE ValuesBefore(_, _)
ValuesBefore(s, i) ==
    IF i <= 1 THEN 0
    ELSE s[i-1].comps * s[i-1].tuples.lo + ValuesBefore(s, i-1)

WithBase(s) ==
    [i \in 1..Len(s) |-> [s[i] EXCEPT !.base = ValuesBefore(s, i)]]

ArraySets ==
    { WithBase(s) : s \in UNION { [1..n -> Shapes] : n \in 0..MaxArrays } }

\* the array sets in which every slot holds a data array
DataArraySets == { s \in ArraySets : \A i \in 1..Len(s) : ~ s[i].null }

(***************************************************************************)
(* The calls made on vtkPointData and vtkDataArray.                        *)
(***************************************************************************)
GetNumberOfArrays(pd) == Len(pd)

GetArray(pd, i) == pd[i + 1]

GetNumberOfComponents(a) == a.comps

GetNumberOfTuples(a) == a.tuples

\* tuple t of array a exists
HasTuple(a, t) == a.tuples.hi > 0 \/ t < a.tuples.lo

GetComponent(a, t, c) == a.base + t * a.comps + c + 1

(***************************************************************************)
(* Integer conversions and unsigned comparisons of the source.             *)
(***************************************************************************)
\* vtkIdType to unsigned int (line 431): the value modulo 2^32
ToUnsignedInt(n) == n.lo

\* x < n for a 64 bit count n
LessThanCount(x, n) == n.hi > 0 \/ x < n.lo

\* x < n - 1 for a 64 bit unsigned n: 0 - 1 wraps to 2^64 - 1
LessThanCountMinusOne(x, n) ==
    \/ n.hi > 0
    \/ n.lo = 0
    \/ x < n.lo - 1

\* x < n - 1 for a 32 bit unsigned n: 0 - 1 wraps to 2^32 - 1
LessThanMinusOne(x, n) == n = 0 \/ x < n - 1

(***************************************************************************)
(* Tokens written to the output stream.                                    *)
(***************************************************************************)
Delimiter == [k |-> "tab", v |-> 0, p |-> 0]

Endl == [k |-> "newline", v |-> 0, p |-> 0]

\* operator<<(double) at the precision of the stream
FormatDouble(value, precision) == [k |-> "text", v |-> value, p |-> precision]

\* the sizeof(Value) bytes of a double
RawDouble(value) == [k |-> "bytes", v |-> value, p |-> SizeofDouble]

RECURSIVE ByteLength(_)
ByteLength(s) ==
    IF s = << >> THEN 0
    ELSE (IF Head(s).k = "bytes" THEN Head(s).p ELSE 1) + ByteLength(Tail(s))

(***************************************************************************)
(* Process exit.                                                           *)
(***************************************************************************)
Exit(status, message) ==
    /\ pc' = "exit"
    /\ exitStatus' = status
    /\ stderr' = Append(stderr, message)

\* abnormal termination, one outcome of undefined behaviour
Crash ==
    /\ pc' = "exit"
    /\ exitStatus' = Crashed


(***************************************************************************)
(* Insertion of tokens into OutputFile.  n of the tokens reach the file;   *)
(* n < Len(tokens) is a write that fails (on a faulty device only): the    *)
(* stream goes bad, and a bad stream ignores every later insertion.        *)
(* nreads is the number of GetComponent calls made when the insertion is   *)
(* requested.                                                              *)
(***************************************************************************)
Outcomes(tokens) ==
    IF ~ OutputFile.good THEN {0}
    ELSE IF faulty THEN 0..Len(tokens)
    ELSE {Len(tokens)}

Insert(tokens, n, nreads) ==
    /\ writes' = writes \o tokens
    /\ IF OutputFile.good
       THEN /\ disk' = [disk EXCEPT !.content = @ \o SubSeq(tokens, 1, n)]
            /\ OutputFile' = [OutputFile EXCEPT !.good = (n = Len(tokens))]
            /\ failPoint' = IF n = Len(tokens) THEN failPoint
                            ELSE [reads |-> nreads, writes |-> Len(writes) + n]
       ELSE UNCHANGED << disk, OutputFile, failPoint >>

(***************************************************************************)
(* WriteArraysToOutputFile, lines 397-413: the array count.                *)
(***************************************************************************)
CheckNumberOfArrays ==
    /\ pc = "WriteArraysToOutputFile"
    /\ IF GetNumberOfArrays(InputPointData) < 1
       THEN /\ Exit(1, "DataSet has no array.")
            /\ UNCHANGED << ArrayIterator >>
       ELSE /\ pc' = "validate"
            /\ ArrayIterator' = 0
            /\ UNCHANGED << exitStatus, stderr >>
    /\ UNCHANGED << cliVars, InputPointData, BinaryOutputFile,
                    NumberOfComponentsInEachArray, NumberOfTuplesInEachArray,
                    ColumnCounter, NumberOfTuples, TupleIterator,
                    ComponentIterator, OutputFile, disk, writes, reads,
                    stdout, derefs, failPoint, run, previous >>

(***************************************************************************)
(* One iteration of the loop of lines 414-457 with the component count and *)
(* the (32 bit) tuple count read from the array.                           *)
(***************************************************************************)
TuplesDiffer(i, ntuples) ==
    i > 0 /\ ntuples # NumberOfTuplesInEachArray[1]

RecordArray(i, ncomps, ntuples) ==
    /\ NumberOfComponentsInEachArray' =
           Append(NumberOfComponentsInEachArray, ncomps)
    /\ NumberOfTuplesInEachArray' = Append(NumberOfTuplesInEachArray, ntuples)
    /\ IF TuplesDiffer(i, ntuples)
       THEN /\ Exit(1, "Inconsistent file")
            /\ UNCHANGED << ColumnCounter, ArrayIterator, stdout >>
       ELSE /\ ColumnCounter' = ColumnCounter + ncomps
            /\ stdout' = Append(stdout, << "Array", i, ncomps, ntuples >>)
            /\ ArrayIterator' = i + 1
            /\ UNCHANGED << pc, exitStatus, stderr >>

ValidateArray ==
    /\ pc = "validate"
    /\ ArrayIterator < GetNumberOfArrays(InputPointData)
    /\ ~ GetArray(InputPointData, ArrayIterator).null
    /\ LET a == GetArray(InputPointData, ArrayIterator)
       IN  RecordArray(ArrayIterator, GetNumberOfComponents(a),
                       ToUnsignedInt(GetNumberOfTuples(a)))
    /\ UNCHANGED << cliVars, InputPointData, BinaryOutputFile, NumberOfTuples,
                    TupleIterator, ComponentIterator, OutputFile, disk,
                    writes, reads, derefs, failPoint, run, previous >>

(***************************************************************************)
(* The same iteration on a NULL array: line 425 prints and goes on, and    *)
(* lines 430, 432 and 455 call members through the NULL pointer, which is  *)
(* undefined: the process crashes, or goes on with arbitrary counts.       *)
(***************************************************************************)
ValidateNullArray ==
    /\ pc = "validate"
    /\ ArrayIterator < GetNumberOfArrays(InputPointData)
    /\ GetArray(InputPointData, ArrayIterator).null
    /\ \/ /\ Crash
          /\ stderr' = Append(stderr, "Array is NULL.")
          /\ derefs' = derefs \cup
                 { << ArrayIterator, "GetNumberOfComponents" >> }
          /\ UNCHANGED << NumberOfComponentsInEachArray,
                          NumberOfTuplesInEachArray, ColumnCounter,
                          ArrayIterator, stdout >>
       \/ \E ncomps \in 0..MaxComponents, ntuples \in 0..MaxTuples :
             /\ NumberOfComponentsInEachArray' =
                    Append(NumberOfComponentsInEachArray, ncomps)
             /\ NumberOfTuplesInEachArray' =
                    Append(NumberOfTuplesInEachArray, ntuples)
             /\ IF TuplesDiffer(ArrayIterator, ntuples)
                THEN /\ pc' = "exit"
                     /\ exitStatus' = 1
                     /\ stderr' = stderr \o
                            << "Array is NULL.", "Inconsistent file" >>
                     /\ derefs' = derefs \cup
                            { << ArrayIterator, "GetNumberOfComponents" >>,
                              << ArrayIterator, "GetNumberOfTuples" >> }
                     /\ UNCHANGED << ColumnCounter, ArrayIterator, stdout >>
                ELSE /\ ColumnCounter' = ColumnCounter + ncomps
                     /\ stdout' = Append(stdout,
                            << "Array", ArrayIterator, ncomps, ntuples >>)
                     /\ ArrayIterator' = ArrayIterator + 1
                     /\ stderr' = Append(stderr, "Array is NULL.")
                     /\ derefs' = derefs \cup
                            { << ArrayIterator, "GetNumberOfComponents" >>,
                              << ArrayIterator, "GetNumberOfTuples" >>,
                              << ArrayIterator, "GetName" >> }
                     /\ UNCHANGED << pc, exitStatus >>
    /\ UNCHANGED << cliVars, InputPointData, BinaryOutputFile, NumberOfTuples,
                    TupleIterator, ComponentIterator, OutputFile, disk,
                    writes, reads, failPoint, run, previous >>

(***************************************************************************)
(* Lines 459-461 and OpenFile, lines 497-523: the file is created or       *)
(* truncated, or cannot be opened.                                         *)
(***************************************************************************)
OpenMode(binary) == IF binary THEN "binary" ELSE "text"

\* std::ofstream::open without std::ios::app creates the file or empties it
OpenedContentAppending(old) == [exists |-> TRUE, content |-> old.content]

OpenedContent(old) == [exists |-> TRUE, content |-> << >>]

OpenFile ==
    /\ pc = "validate"
    /\ ~ (ArrayIterator < GetNumberOfArrays(InputPointData))
    /\ \/ /\ OutputFile' = [open |-> TRUE, good |-> TRUE,
                            precision |-> DECIMAL_PRECISION,
                            mode |-> OpenMode(BinaryOutputFile)]
          /\ disk' = OpenedContent(disk)
          /\ pc' = IF BinaryOutputFile = FALSE
                   THEN "WriteArraysToASCIIFile"
                   ELSE "WriteArraysToBinaryFile"
          /\ UNCHANGED << exitStatus, stderr >>
       \/ /\ Exit(1, "Can not open output file")
          /\ UNCHANGED << OutputFile, disk >>
    /\ UNCHANGED << cliVars, InputPointData, BinaryOutputFile,
                    NumberOfComponentsInEachArray, NumberOfTuplesInEachArray,
                    ColumnCounter, NumberOfTuples, ArrayIterator,
                    TupleIterator, ComponentIterator, writes, reads, stdout,
                    derefs, failPoint, run, previous >>


(***************************************************************************)
(* GetComponent(t, c) on array i as the serializers call it.  The call is  *)
(* defined when the array is not NULL and holds tuple t and component c;   *)
(* otherwise the read is undefined and yields a crash or an arbitrary      *)
(* value.                                                                  *)
(***************************************************************************)
DefinedRead(i, t, c) ==
    LET a == GetArray(InputPointData, i)
    IN  ~ a.null /\ HasTuple(a, t) /\ c < a.comps

\* the loops are followed up to row MaxTuples (a 64 bit row count has no end
\* the model can reach)
InLoopBody ==
    /\ LessThanCount(TupleIterator, NumberOfTuples)
    /\ TupleIterator <= MaxTuples

AtComponent ==
    /\ InLoopBody
    /\ ArrayIterator < GetNumberOfArrays(InputPointData)
    /\ ComponentIterator < NumberOfComponentsInEachArray[ArrayIterator + 1]

AtEndOfArray ==
    /\ InLoopBody
    /\ ArrayIterator < GetNumberOfArrays(InputPointData)
    /\ ~ (ComponentIterator < NumberOfComponentsInEachArray[ArrayIterator + 1])

AtEndOfTuple ==
    /\ InLoopBody
    /\ ~ (ArrayIterator < GetNumberOfArrays(InputPointData))

serializerFrame ==
    << cliVars, InputPointData, BinaryOutputFile,
       NumberOfComponentsInEachArray, NumberOfTuplesInEachArray,
       ColumnCounter, NumberOfTuples, stdout, derefs, run, previous >>

\* lines 539-545 and 618-622: NumberOfTuples is read from array 0
EnterSerializer(loop) ==
    /\ stdout' = Append(stdout, << "Write to binary file." >>)
    /\ TupleIterator' = 0
    /\ ArrayIterator' = 0
    /\ ComponentIterator' = 0
    /\ IF ~ GetArray(InputPointData, 0).null
       THEN /\ NumberOfTuples' = GetNumberOfTuples(GetArray(InputPointData, 0))
            /\ pc' = loop
            /\ UNCHANGED << exitStatus, derefs >>
       ELSE /\ derefs' = derefs \cup { << 0, "GetNumberOfTuples" >> }
            /\ \/ Crash /\ UNCHANGED NumberOfTuples
               \/ /\ \E n \in 0..MaxTuples :
                        NumberOfTuples' = [hi |-> 0, lo |-> n]
                  /\ pc' = loop
                  /\ UNCHANGED exitStatus
    /\ UNCHANGED << cliVars, InputPointData, BinaryOutputFile,
                    NumberOfComponentsInEachArray, NumberOfTuplesInEachArray,
                    ColumnCounter, OutputFile, disk, writes, reads, stderr,
                    failPoint, run, previous >>

(***************************************************************************)
(* WriteArraysToASCIIFile, lines 533-588.                                  *)
(***************************************************************************)
WriteArraysToASCIIFile ==
    /\ pc = "WriteArraysToASCIIFile"
    /\ EnterSerializer("ascii")

\* lines 564-572: one field and the delimiter between components
ASCIIFieldTokens(value, c, ncomps) ==
    << FormatDouble(value, OutputFile.precision) >> \o
    (IF LessThanMinusOne(c, ncomps) THEN << Delimiter >> ELSE << >>)

ASCIIWriteField(access, value) ==
    LET tokens == ASCIIFieldTokens(value, ComponentIterator,
                      NumberOfComponentsInEachArray[ArrayIterator + 1])
    IN  /\ reads' = Append(reads, access)
        /\ \E n \in Outcomes(tokens) : Insert(tokens, n, Len(reads) + 1)
        /\ ComponentIterator' = ComponentIterator + 1
        /\ UNCHANGED << pc, exitStatus, ArrayIterator, TupleIterator >>

\* lines 564-565: the array, tuple and component of the GetComponent call
ASCIIAccessTransposed(i, t, c) == << i, c, t >>

ASCIIAccess(i, t, c) == << i, t, c >>

ASCIIComponent ==
    /\ pc = "ascii"
    /\ AtComponent
    /\ LET access == ASCIIAccess(ArrayIterator, TupleIterator,
                                 ComponentIterator)
       IN  \/ /\ DefinedRead(access[1], access[2], access[3])
              /\ ASCIIWriteField(access, GetComponent(
                     GetArray(InputPointData, access[1]),
                     access[2], access[3]))
           \/ /\ ~ DefinedRead(access[1], access[2], access[3])
              /\ ASCIIWriteField(access, Garbage)
           \/ /\ ~ DefinedRead(access[1], access[2], access[3])
              /\ Crash
              /\ reads' = Append(reads, access)
              /\ UNCHANGED << ArrayIterator, TupleIterator,
                              ComponentIterator, OutputFile, disk, writes,
                              failPoint >>
    /\ UNCHANGED << serializerFrame, stderr >>

\* lines 575-579: the delimiter between arrays
ASCIIArrayTokensAlways(i, narrays) == << Delimiter >>

ASCIIArrayTokens(i, narrays) ==
    IF LessThanMinusOne(i, narrays) THEN << Delimiter >> ELSE << >>

ASCIIEndOfArray ==
    /\ pc = "ascii"
    /\ AtEndOfArray
    /\ LET tokens == ASCIIArrayTokens(ArrayIterator,
                         GetNumberOfArrays(InputPointData))
       IN  \E n \in Outcomes(tokens) : Insert(tokens, n, Len(reads))
    /\ ArrayIterator' = ArrayIterator + 1
    /\ ComponentIterator' = 0
    /\ UNCHANGED << serializerFrame, pc, exitStatus, stderr, reads,
                    TupleIterator >>

\* lines 582-586: the new line between rows
ASCIITupleTokens(t, ntuples) ==
    IF LessThanCountMinusOne(t, ntuples) THEN << Endl >> ELSE << >>

ASCIIEndOfTuple ==
    /\ pc = "ascii"
    /\ AtEndOfTuple
    /\ LET tokens == ASCIITupleTokens(TupleIterator, NumberOfTuples)
       IN  \E n \in Outcomes(tokens) : Insert(tokens, n, Len(reads))
    /\ TupleIterator' = TupleIterator + 1
    /\ ArrayIterator' = 0
    /\ UNCHANGED << serializerFrame, pc, exitStatus, stderr, reads,
                    ComponentIterator >>

ASCIIReturn ==
    /\ pc = "ascii"
    /\ ~ LessThanCount(TupleIterator, NumberOfTuples)
    /\ pc' = "summary"
    /\ UNCHANGED << serializerFrame, exitStatus, stderr, reads, writes, disk,
                    OutputFile, failPoint, ArrayIterator, TupleIterator,
                    ComponentIterator >>

(***************************************************************************)
(* WriteArraysToBinaryFile, lines 612-648.                                 *)
(***************************************************************************)
WriteArraysToBinaryFile ==
    /\ pc = "WriteArraysToBinaryFile"
    /\ EnterSerializer("binary")

\* lines 641-644
BinaryFieldTokensDelimited(value) == << RawDouble(value), Delimiter >>

BinaryFieldTokens(value) == << RawDouble(value) >>

BinaryWriteField(access, value) ==
    LET tokens == BinaryFieldTokens(value)
    IN  /\ reads' = Append(reads, access)
        /\ \E n \in Outcomes(tokens) : Insert(tokens, n, Len(reads) + 1)
        /\ ComponentIterator' = ComponentIterator + 1
        /\ UNCHANGED << pc, exitStatus, ArrayIterator, TupleIterator >>

\* lines 641-642: the array, tuple and component of the GetComponent call
BinaryAccessTransposed(i, t, c) == << i, c, t >>

BinaryAccess(i, t, c) == << i, t, c >>

BinaryComponent ==
    /\ pc = "binary"
    /\ AtComponent
    /\ LET access == BinaryAccess(ArrayIterator, TupleIterator,
                                  ComponentIterator)
       IN  \/ /\ DefinedRead(access[1], access[2], access[3])
              /\ BinaryWriteField(access, GetComponent(
                     GetArray(InputPointData, access[1]),
                     access[2], access[3]))
           \/ /\ ~ DefinedRead(access[1], access[2], access[3])
              /\ BinaryWriteField(access, Garbage)
           \/ /\ ~ DefinedRead(access[1], access[2], access[3])
              /\ Crash
              /\ reads' = Append(reads, access)
              /\ UNCHANGED << ArrayIterator, TupleIterator,
                              ComponentIterator, OutputFile, disk, writes,
                              failPoint >>
    /\ UNCHANGED << serializerFrame, stderr >>

BinaryEndOfArray ==
    /\ pc = "binary"
    /\ AtEndOfArray
    /\ ArrayIterator' = ArrayIterator + 1
    /\ ComponentIterator' = 0
    /\ UNCHANGED << serializerFrame, pc, exitStatus, stderr, reads, writes,
                    disk, OutputFile, failPoint, TupleIterator >>

BinaryEndOfTuple ==
    /\ pc = "binary"
    /\ AtEndOfTuple
    /\ TupleIterator' = TupleIterator + 1
    /\ ArrayIterator' = 0
    /\ UNCHANGED << serializerFrame, pc, exitStatus, stderr, reads, writes,
                    disk, OutputFile, failPoint, ComponentIterator >>

BinaryReturn ==
    /\ pc = "binary"
    /\ ~ LessThanCount(TupleIterator, NumberOfTuples)
    /\ pc' = "summary"
    /\ UNCHANGED << serializerFrame, exitStatus, stderr, reads, writes, disk,
                    OutputFile, failPoint, ArrayIterator, TupleIterator,
                    ComponentIterator >>

(***************************************************************************)
(* WriteArraysToOutputFile, lines 483-491, and the return through the      *)
(* reader and main (line 132).                                             *)
(***************************************************************************)
ReportSummary ==
    /\ pc = "summary"
    /\ stdout' = Append(stdout,
           << "written", GetNumberOfArrays(InputPointData),
              NumberOfTuplesInEachArray[1], ColumnCounter >>)
    /\ pc' = "close"
    /\ UNCHANGED << cliVars, InputPointData, BinaryOutputFile,
                    NumberOfComponentsInEachArray, NumberOfTuplesInEachArray,
                    ColumnCounter, NumberOfTuples, ArrayIterator,
                    TupleIterator, ComponentIterator, OutputFile, disk,
                    writes, reads, stderr, exitStatus, derefs, failPoint,
                    run, previous >>

CloseFile ==
    /\ pc = "close"
    /\ OutputFile' = [OutputFile EXCEPT !.open = FALSE]
    /\ pc' = "done"
    /\ exitStatus' = EXIT_SUCCESS
    /\ UNCHANGED << cliVars, InputPointData, BinaryOutputFile,
                    NumberOfComponentsInEachArray, NumberOfTuplesInEachArray,
                    ColumnCounter, NumberOfTuples, ArrayIterator,
                    TupleIterator, ComponentIterator, disk, writes, reads,
                    stdout, stderr, derefs, failPoint, run, previous >>

(***************************************************************************)
(* The conversion of one point data set: the state at the call of          *)
(* WriteArraysToOutputFile, for every array set and both output modes.     *)
(* The output file may exist already.                                      *)
(***************************************************************************)
ClosedFile ==
    [open |-> FALSE, good |-> TRUE, precision |-> DefaultPrecision,
     mode |-> "none"]

NoPrevious == [ran |-> FALSE]

InitLocals ==
    /\ NumberOfComponentsInEachArray = << >>
    /\ NumberOfTuplesInEachArray = << >>
    /\ ColumnCounter = 0
    /\ NumberOfTuples = Zero64
    /\ ArrayIterator = 0
    /\ TupleIterator = 0
    /\ ComponentIterator = 0
    /\ OutputFile = ClosedFile
    /\ writes = << >>
    /\ reads = << >>
    /\ stdout = << >>
    /\ stderr = << >>
    /\ exitStatus = Running
    /\ derefs = {}
    /\ failPoint = NoFail
    /\ run = 1
    /\ previous = NoPrevious

Init ==
    /\ pc = "WriteArraysToOutputFile"
    /\ argc = 0
    /\ argv = << >>
    /\ InputFile = "none"
    /\ reader = "none"
    /\ InputPointData \in ArraySets
    /\ BinaryOutputFile \in BOOLEAN
    /\ disk \in {NoFile, StaleFile}
    /\ faulty = FALSE
    /\ InitLocals

\* the same on an output device that can fail
InitFaulty ==
    /\ pc = "WriteArraysToOutputFile"
    /\ argc = 0
    /\ argv = << >>
    /\ InputFile = "none"
    /\ reader = "none"
    /\ InputPointData \in ArraySets
    /\ BinaryOutputFile \in BOOLEAN
    /\ disk \in {NoFile, StaleFile}
    /\ faulty = TRUE
    /\ InitLocals

ConvertData ==
    \/ CheckNumberOfArrays
    \/ ValidateArray
    \/ OpenFile
    \/ WriteArraysToASCIIFile
    \/ ASCIIComponent
    \/ ASCIIEndOfArray
    \/ ASCIIEndOfTuple
    \/ ASCIIReturn
    \/ WriteArraysToBinaryFile
    \/ BinaryComponent
    \/ BinaryEndOfArray
    \/ BinaryEndOfTuple
    \/ BinaryReturn
    \/ ReportSummary
    \/ CloseFile

Convert == ConvertData \/ ValidateNullArray

Next == Convert

Spec == Init /\ [][Next]_vars

SpecFaulty == InitFaulty /\ [][Next]_vars


(***************************************************************************)
(* C strings are sequences of characters.  Alphabet lists the characters   *)
(* of the model in the order of their codes.                               *)
(***************************************************************************)
Alphabet ==
    << " ", "+", "-", ".", "0", "1", "2", "P", "T", "U", "V",
       "a", "i", "k", "m", "p", "r", "t", "u", "v", "w", "x" >>

Code(ch) == CHOOSE n \in 1..Len(Alphabet) : Alphabet[n] = ch

\* strcmp: negative, zero or positive
RECURSIVE strcmp(_, _)
strcmp(a, b) ==
    IF a = << >> /\ b = << >> THEN 0
    ELSE IF a = << >> THEN -1
    ELSE IF b = << >> THEN 1
    ELSE IF Head(a) # Head(b) THEN Code(Head(a)) - Code(Head(b))
    ELSE strcmp(Tail(a), Tail(b))

npos == -1

\* std::string::find_last_of("."), as a 0-based position
find_last_of_dot(str) ==
    IF \E n \in 1..Len(str) : str[n] = "."
    THEN (CHOOSE n \in 1..Len(str) :
              /\ str[n] = "."
              /\ \A m \in (n+1)..Len(str) : str[m] # ".") - 1
    ELSE npos

\* std::string::substr(pos, npos)
substr(str, pos) == SubSeq(str, pos + 1, Len(str))

Digits == << "0", "1", "2" >>

IsDigit(ch) == \E n \in 1..Len(Digits) : Digits[n] = ch

DigitValue(ch) == (CHOOSE n \in 1..Len(Digits) : Digits[n] = ch) - 1

\* the value of the leading digits of str, after the digits worth acc
RECURSIVE ParseDigits(_, _)
ParseDigits(str, acc) ==
    IF str = << >> \/ ~ IsDigit(Head(str)) THEN acc
    ELSE ParseDigits(Tail(str), 10 * acc + DigitValue(Head(str)))

RECURSIVE SkipSpaces(_)
SkipSpaces(str) ==
    IF str # << >> /\ Head(str) = " " THEN SkipSpaces(Tail(str)) ELSE str

\* atoi: white space, an optional sign, then digits; 0 when there are none
atoi(str) ==
    LET rest == SkipSpaces(str)
    IN  IF rest = << >> THEN 0
        ELSE IF Head(rest) = "-" THEN 0 - ParseDigits(Tail(rest), 0)
        ELSE IF Head(rest) = "+" THEN ParseDigits(Tail(rest), 0)
        ELSE ParseDigits(rest, 0)

(***************************************************************************)
(* DetermineInputFileType, lines 200-245.  The result is a file type, or   *)
(* the message of the exit(1) taken.                                       *)
(***************************************************************************)
ExtVtk == << "v", "t", "k" >>
ExtVti == << "v", "t", "i" >>
ExtVTP == << "V", "T", "P" >>
ExtVTU == << "V", "T", "U" >>

NoExtensionFound == "No file extension found in the Input filename."
NoValidExtension == "No valid input file extension found."
InputFileTypes == {"VTK", "VTI", "VTP", "VTU"}

CompareFileExtension(FileExtension) ==
    IF strcmp(FileExtension, ExtVtk) = 0 THEN "VTK"
    ELSE IF strcmp(FileExtension, ExtVti) = 0 THEN "VTI"
    ELSE IF strcmp(FileExtension, ExtVTP) # 0 THEN "VTP"
    ELSE IF strcmp(FileExtension, ExtVTU) # 0 THEN "VTU"
    ELSE NoValidExtension

DetermineInputFileType(InputFilename) ==
    LET FoundLastDot == find_last_of_dot(InputFilename)
    IN  IF FoundLastDot # npos
        THEN CompareFileExtension(substr(InputFilename, FoundLastDot + 1))
        ELSE NoExtensionFound

(***************************************************************************)
(* main, lines 101-133, with PrintUsage.  argv[k] is Arg(k).               *)
(***************************************************************************)
Arg(k) == argv[k + 1]

engineVars ==
    << NumberOfComponentsInEachArray, NumberOfTuplesInEachArray,
       ColumnCounter, NumberOfTuples, ArrayIterator, TupleIterator,
       ComponentIterator, OutputFile, disk, writes, reads, stdout, derefs,
       failPoint, run, previous >>

Main ==
    /\ pc = "main"
    /\ IF argc < 3
       THEN /\ Exit(0, "Usage")
            /\ UNCHANGED BinaryOutputFile
       ELSE IF argc = 4 /\ atoi(Arg(3)) # 0 /\ atoi(Arg(3)) # 1
       THEN /\ Exit(1, "Binary option should be either 0 or 1.")
            /\ UNCHANGED BinaryOutputFile
       ELSE /\ BinaryOutputFile' = (argc = 4 /\ atoi(Arg(3)) # 0)
            /\ pc' = "ReadDataSetWriteToOutput"
            /\ UNCHANGED << exitStatus, stderr >>
    /\ UNCHANGED << argc, argv, InputFile, reader, faulty, InputPointData,
                    engineVars >>

(***************************************************************************)
(* ReadDataSetWriteToOutput, lines 152-194.                                *)
(***************************************************************************)
ReaderFunction(type) ==
    IF type = "VTK" THEN "ReadVTKInputFileWriteToOutputFile"
    ELSE IF type = "VTI" THEN "ReadVTIInputFileWriteToOutputFile"
    ELSE IF type = "VTP" THEN "ReadVTPInputFileWriteToOutputFile"
    ELSE IF type = "VTU" THEN "ReadVTUInputFileWriteToOutputFile"
    ELSE "Invalid input file type."

ReadDataSetWriteToOutput ==
    /\ pc = "ReadDataSetWriteToOutput"
    /\ LET type == DetermineInputFileType(Arg(1))
       IN  IF type \notin InputFileTypes
           THEN /\ Exit(1, type)
                /\ UNCHANGED InputFile
           ELSE /\ InputFile' = type
                /\ IF ReaderFunction(type) = "Invalid input file type."
                   THEN Exit(1, "Invalid input file type.")
                   ELSE /\ pc' = ReaderFunction(type)
                        /\ UNCHANGED << exitStatus, stderr >>
    /\ UNCHANGED << argc, argv, reader, faulty, InputPointData,
                    BinaryOutputFile, engineVars >>

(***************************************************************************)
(* The four readers, lines 268-359.  What a reader yields for the file is  *)
(* one of the sample point data sets: no array, the two arrays of the      *)
(* documentation, or a slot that holds no data array.                      *)
(***************************************************************************)
DocumentedArrays ==
    WithBase(<< [null |-> FALSE, comps |-> 2,
                 tuples |-> [hi |-> 0, lo |-> 2], base |-> 0],
                [null |-> FALSE, comps |-> 1,
                 tuples |-> [hi |-> 0, lo |-> 2], base |-> 0] >>)

SamplePointData == { << >>, DocumentedArrays, << NullArray >> }

RunReader(function, class) ==
    /\ pc = function
    /\ reader' = class
    /\ InputPointData' \in SamplePointData
    /\ pc' = "WriteArraysToOutputFile"
    /\ UNCHANGED << argc, argv, InputFile, faulty, BinaryOutputFile,
                    engineVars, stderr, exitStatus >>

ReadVTKInputFileWriteToOutputFile ==
    RunReader("ReadVTKInputFileWriteToOutputFile",
              "vtkStructuredPointsReader")

ReadVTIInputFileWriteToOutputFile ==
    RunReader("ReadVTIInputFileWriteToOutputFile", "vtkXMLImageDataReader")

ReadVTPInputFileWriteToOutputFile ==
    RunReader("ReadVTPInputFileWriteToOutputFile", "vtkXMLPolyDataReader")

ReadVTUInputFileWriteToOutputFile ==
    RunReader("ReadVTUInputFileWriteToOutputFile",
              "vtkXMLUnstructuredGridReader")

(***************************************************************************)
(* The whole program on a command line.                                    *)
(***************************************************************************)
ProgramName == << "v" >>
OutputName == << "r" >>
ExtraArgument == << "x" >>

Filenames ==
    { << "m", ".", "v", "t", "k" >>,
      << "m", ".", "v", "t", "i" >>,
      << "m", ".", "v", "t", "p" >>,
      << "m", ".", "v", "t", "u" >>,
      << "m", ".", "V", "T", "P" >>,
      << "m", ".", "V", "T", "U" >>,
      << "m", ".", "r", "a", "w" >>,
      << "m", ".", "x", ".", "v", "t", "i" >>,
      << "m", "." >>,
      << "m" >> }

FlagStrings ==
    { << "0" >>, << "1" >>, << "2" >>, << "x" >>, << "1", "x" >>,
      << "-", "1" >>, << " ", "1" >> }

CommandLines(n) ==
    { line \in [1..n -> Filenames \cup FlagStrings \cup
                        {ProgramName, OutputName, ExtraArgument}] :
        /\ line[1] = ProgramName
        /\ n >= 2 => line[2] \in Filenames
        /\ n >= 3 => line[3] = OutputName
        /\ n >= 4 => line[4] \in FlagStrings
        /\ \A k \in 5..n : line[k] = ExtraArgument }

InitMain ==
    /\ pc = "main"
    /\ argc \in 1..MaxArgc
    /\ argv \in CommandLines(argc)
    /\ InputFile = "none"
    /\ reader = "none"
    /\ InputPointData = << >>
    /\ BinaryOutputFile = FALSE
    /\ disk \in {NoFile, StaleFile}
    /\ faulty = FALSE
    /\ InitLocals

NextMain ==
    \/ Main
    \/ ReadDataSetWriteToOutput
    \/ ReadVTKInputFileWriteToOutputFile
    \/ ReadVTIInputFileWriteToOutputFile
    \/ ReadVTPInputFileWriteToOutputFile
    \/ ReadVTUInputFileWriteToOutputFile
    \/ Convert

SpecMain == InitMain /\ [][NextMain]_vars

(***************************************************************************)
(* A second conversion of the same point data (data arrays in every slot)  *)
(* to the same output file, after the first has returned, in either mode.  *)
(***************************************************************************)
Rerun ==
    /\ pc = "done"
    /\ run = 1
    /\ previous' = [ran |-> TRUE, disk |-> disk, writes |-> writes,
                    reads |-> reads, binary |-> BinaryOutputFile,
                    derefs |-> derefs]
    /\ run' = 2
    /\ pc' = "WriteArraysToOutputFile"
    /\ BinaryOutputFile' \in BOOLEAN
    /\ NumberOfComponentsInEachArray' = << >>
    /\ NumberOfTuplesInEachArray' = << >>
    /\ ColumnCounter' = 0
    /\ NumberOfTuples' = Zero64
    /\ ArrayIterator' = 0
    /\ TupleIterator' = 0
    /\ ComponentIterator' = 0
    /\ OutputFile' = ClosedFile
    /\ writes' = << >>
    /\ reads' = << >>
    /\ stdout' = << >>
    /\ stderr' = << >>
    /\ exitStatus' = Running
    /\ derefs' = {}
    /\ failPoint' = NoFail
    /\ UNCHANGED << argc, argv, InputFile, reader, faulty, InputPointData,
                    disk >>

InitTwice ==
    /\ pc = "WriteArraysToOutputFile"
    /\ argc = 0
    /\ argv = << >>
    /\ InputFile = "none"
    /\ reader = "none"
    /\ InputPointData \in DataArraySets
    /\ BinaryOutputFile \in BOOLEAN
    /\ disk \in {NoFile, StaleFile}
    /\ faulty = FALSE
    /\ InitLocals

NextTwice == ConvertData \/ Rerun

SpecTwice == InitTwice /\ [][NextTwice]_vars


(***************************************************************************)
(* Vocabulary of the properties.                                           *)
(***************************************************************************)
\* every slot holds a data array and all have one and the same tuple count
Validated(pd) ==
    /\ Len(pd) >= 1
    /\ \A i \in 1..Len(pd) : ~ pd[i].null /\ pd[i].tuples = pd[1].tuples

\* the common tuple count m (below 2^32) and the total component count n
RowCount(pd) == pd[1].tuples.lo

\* startColumn of the array at position i (1-based): a prefix sum
RECURSIVE StartColumn(_, _)
StartColumn(pd, i) ==
    IF i <= 1 THEN 0 ELSE StartColumn(pd, i - 1) + pd[i - 1].comps

TotalComponents(pd) == StartColumn(pd, Len(pd) + 1)

\* the position of the array that holds column j (0-based)
ArrayOfColumn(pd, j) ==
    CHOOSE i \in 1..Len(pd) :
        StartColumn(pd, i) <= j /\ j < StartColumn(pd, i) + pd[i].comps

\* the serializer has returned to WriteArraysToOutputFile
SerializerReturned == pc \in {"summary", "close", "done"}

IsValue(token) == token.k \in {"text", "bytes"}

\* the values of the fields of a token sequence, in order
RECURSIVE Values(_)
Values(s) ==
    IF s = << >> THEN << >>
    ELSE IF IsValue(Head(s)) THEN << Head(s).v >> \o Values(Tail(s))
    ELSE Values(Tail(s))

SummaryReported ==
    \E n \in 1..Len(stdout) : stdout[n][1] = "written"

(***************************************************************************)
(* C1.  For a validated array set of m >= 1 tuples and n components in     *)
(* all, WriteArraysToASCIIFile writes m rows of n fields: a single tab     *)
(* between two adjacent fields of a row (also where two arrays meet), no   *)
(* tab before the first or after the last field, a new line between two    *)
(* rows and none after the last row.  For m = 0 it writes nothing.  On a   *)
(* device that does not fail, this is the content of the file.             *)
(***************************************************************************)
TextShape(s, m, n) ==
    IF m = 0 THEN s = << >>
    ELSE /\ Len(s) = 2 * m * n - 1
         /\ \A q \in 1..Len(s) :
                LET col == (q - 1) % (2 * n)
                IN  s[q].k = IF col = 2 * n - 1 THEN "newline"
                             ELSE IF col % 2 = 0 THEN "text"
                             ELSE "tab"

C1_TextRowsAndFields ==
    (SerializerReturned /\ BinaryOutputFile = FALSE
        /\ Validated(InputPointData))
    => /\ TextShape(writes, RowCount(InputPointData),
                    TotalComponents(InputPointData))
       /\ disk.content = writes

C1_Witness ==
    /\ pc = "done"
    /\ BinaryOutputFile = FALSE
    /\ Validated(InputPointData)
    /\ Len(InputPointData) = 2
    /\ RowCount(InputPointData) = 2
    /\ TotalComponents(InputPointData) >= 3
    /\ Len(writes) = 4 * TotalComponents(InputPointData) - 1

(***************************************************************************)
(* C2.  For a validated array set of m tuples and n components in all,     *)
(* WriteArraysToBinaryFile makes m * n writes of 8 bytes each and no other *)
(* write, and the file is m * n * 8 bytes long.                            *)
(***************************************************************************)
C2_BinaryLength ==
    (SerializerReturned /\ BinaryOutputFile = TRUE
        /\ Validated(InputPointData))
    => LET cells == RowCount(InputPointData) *
                        TotalComponents(InputPointData)
       IN  /\ Len(writes) = cells
           /\ \A q \in 1..Len(writes) :
                  writes[q].k = "bytes" /\ writes[q].p = 8
           /\ disk.content = writes
           /\ ByteLength(disk.content) = cells * 8

C2_Witness ==
    /\ pc = "done"
    /\ BinaryOutputFile = TRUE
    /\ Validated(InputPointData)
    /\ Len(InputPointData) = 2
    /\ RowCount(InputPointData) = 2
    /\ ByteLength(disk.content) >= 48

(***************************************************************************)
(* C3.  Column order, in both serializers: for a validated array set, the  *)
(* j-th value written for row r is value (r, c) of array i, read by the    *)
(* call GetComponent(r, c) on array i, where i is the array whose columns  *)
(* startColumn[i] .. startColumn[i] + componentCount[i] - 1 hold j and     *)
(* c = j - startColumn[i].  The arrays A = [[1,2],[3,4]], B = [[5],[6]]    *)
(* give the values 1, 2, 5, 3, 4, 6.                                       *)
(***************************************************************************)
ColumnOrder(pd, vals, calls) ==
    LET n == TotalComponents(pd)
    IN  /\ Len(vals) = RowCount(pd) * n
        /\ Len(calls) = RowCount(pd) * n
        /\ \A r \in 0..(RowCount(pd) - 1) : \A j \in 0..(n - 1) :
               LET i == ArrayOfColumn(pd, j)
                   c == j - StartColumn(pd, i)
               IN  /\ vals[r * n + j + 1] = GetComponent(pd[i], r, c)
                   /\ calls[r * n + j + 1] = << i - 1, r, c >>

C3_ColumnOrder ==
    (SerializerReturned /\ Validated(InputPointData))
    => /\ ColumnOrder(InputPointData, Values(writes), reads)
       /\ InputPointData = DocumentedArrays
              => Values(writes) = << 1, 2, 5, 3, 4, 6 >>

C3_Witness ==
    /\ pc = "done"
    /\ InputPointData = DocumentedArrays
    /\ Values(disk.content) = << 1, 2, 5, 3, 4, 6 >>


(***************************************************************************)
(* C4.  Validation precedes output: when the point data has no array, or   *)
(* an array whose tuple count is not that of array 0, the conversion ends  *)
(* with an error and the output file is never opened, created or emptied.  *)
(* Stated for point data with a data array in every slot.  The source      *)
(* compares the counts as unsigned int (lines 409, 431, 437), so that two  *)
(* counts that differ by a multiple of 2^32 pass.                          *)
(***************************************************************************)
AllDataArrays(pd) == \A i \in 1..Len(pd) : ~ pd[i].null

TupleCountsDiffer(pd) ==
    \E i \in 1..Len(pd) : pd[i].tuples # pd[1].tuples

FileUntouched ==
    /\ OutputFile = ClosedFile
    /\ disk \in {NoFile, StaleFile}
    /\ writes = << >>

C4_ValidationPrecedesOutput ==
    (AllDataArrays(InputPointData)
        /\ (Len(InputPointData) = 0 \/ TupleCountsDiffer(InputPointData)))
    => /\ FileUntouched
       /\ pc \in {"WriteArraysToOutputFile", "validate", "exit"}
       /\ pc = "exit" => exitStatus = 1

(***************************************************************************)
(* C9.  A missing array is a hard error: when a slot of the point data is  *)
(* NULL the conversion stops at that slot, no member is called through the *)
(* NULL pointer and the output file is not opened.  The source prints      *)
(* "Array i is NULL." (line 425) and goes on to line 430.                  *)
(***************************************************************************)
C9_MissingArrayStops ==
    /\ derefs = {}
    /\ (~ AllDataArrays(InputPointData))
       => /\ FileUntouched
          /\ pc \in {"WriteArraysToOutputFile", "validate", "exit"}
          /\ pc = "exit" => exitStatus = 1

(***************************************************************************)
(* C10.  A write failure aborts the conversion: once the stream has gone   *)
(* bad at some field the serializer makes no further GetComponent call,    *)
(* the success summary is not printed and the process does not end with    *)
(* success.  The source never tests the state of OutputFile.               *)
(***************************************************************************)
C10_WriteFailureAborts ==
    failPoint # NoFail
    => /\ Len(reads) = failPoint.reads
       /\ ~ SummaryReported
       /\ exitStatus # EXIT_SUCCESS

(***************************************************************************)
(* C5.  The two serializers agree on the order: on the same validated      *)
(* array set, WriteArraysToBinaryFile and WriteArraysToASCIIFile make the  *)
(* same sequence of GetComponent calls (array, tuple, component), and the  *)
(* k-th binary value is the value of the k-th text field.                  *)
(***************************************************************************)
C5_SerializersAgree ==
    (run = 2 /\ SerializerReturned /\ Validated(InputPointData)
        /\ BinaryOutputFile # previous.binary)
    => /\ reads = previous.reads
       /\ Values(writes) = Values(previous.writes)

C5_Witness ==
    /\ run = 2
    /\ pc = "done"
    /\ Validated(InputPointData)
    /\ BinaryOutputFile = TRUE
    /\ previous.binary = FALSE
    /\ Len(InputPointData) = 2
    /\ Len(reads) >= 6
    /\ reads = previous.reads

(***************************************************************************)
(* C8.  Determinism: a second conversion of the same point data in the     *)
(* same mode writes the same sequence of fields and separators and leaves  *)
(* the same file content as the first, whatever the file held before.      *)
(***************************************************************************)
C8_Deterministic ==
    (run = 2 /\ pc = "done" /\ BinaryOutputFile = previous.binary)
    => /\ writes = previous.writes
       /\ reads = previous.reads
       /\ disk = previous.disk

C8_Witness ==
    /\ run = 2
    /\ pc = "done"
    /\ BinaryOutputFile = previous.binary
    /\ Len(InputPointData) = 2
    /\ Len(disk.content) >= 6
    /\ disk = previous.disk

(***************************************************************************)
(* C6.  The command line: without a third argument the output is text; a   *)
(* command line with fewer than two or more than three arguments, or with  *)
(* a third argument that is not 0 or 1, ends at once with the usage        *)
(* message and a status other than 0, and no conversion starts.  The       *)
(* source exits with status 0 on a short command line (line 107), ignores  *)
(* what follows the third argument (line 111) and reads the third argument *)
(* with atoi (line 113).                                                   *)
(***************************************************************************)
ValidFlags == { << "0" >>, << "1" >> }

BadCommandLine ==
    \/ argc < 3
    \/ argc > 4
    \/ argc = 4 /\ Arg(3) \notin ValidFlags

C6_CommandLine ==
    /\ (argc = 3 /\ pc # "main") => BinaryOutputFile = FALSE
    /\ (BadCommandLine /\ pc # "main")
       => /\ pc = "exit"
          /\ exitStatus \notin {0, Running}
          /\ stderr = << "Usage" >>

(***************************************************************************)
(* C7.  Dispatch on the extension: for an input file name that ends in     *)
(* .vtk, .vti, .vtp or .vtu, DetermineInputFileType returns VTK, VTI, VTP  *)
(* or VTU and the reader that runs is the structured points, image data,   *)
(* poly data or unstructured grid reader.  The source tests                *)
(* strcmp(FileExtension, "VTP") for truth (line 231).                      *)
(***************************************************************************)
ExtVtp == << "v", "t", "p" >>
ExtVtu == << "v", "t", "u" >>

ExtensionOf(name) == substr(name, find_last_of_dot(name) + 1)

ExpectedType(ext) ==
    IF ext = ExtVtk THEN "VTK"
    ELSE IF ext = ExtVti THEN "VTI"
    ELSE IF ext = ExtVtp THEN "VTP"
    ELSE "VTU"

ExpectedReader(ext) ==
    IF ext = ExtVtk THEN "vtkStructuredPointsReader"
    ELSE IF ext = ExtVti THEN "vtkXMLImageDataReader"
    ELSE IF ext = ExtVtp THEN "vtkXMLPolyDataReader"
    ELSE "vtkXMLUnstructuredGridReader"

C7_FormatDispatch ==
    (argc >= 3 /\ pc \notin {"main", "ReadDataSetWriteToOutput"}
        /\ find_last_of_dot(Arg(1)) # npos
        /\ ExtensionOf(Arg(1)) \in {ExtVtk, ExtVti, ExtVtp, ExtVtu}
        /\ ~ (argc = 4 /\ atoi(Arg(3)) \notin {0, 1}))
    => /\ InputFile = ExpectedType(ExtensionOf(Arg(1)))
       /\ reader \in {"none", ExpectedReader(ExtensionOf(Arg(1)))}

(***************************************************************************)
(* C11.  Release of the output file: on every path of the conversion on    *)
(* which OutputFile was opened, it is closed when the conversion ends, and *)
(* nothing is written after the close; when validation or the opening      *)
(* fails, no open handle is left.  Stated for point data with a data array *)
(* in every slot.  The only close is line 490, after the serializer has    *)
(* returned: a process that is killed in the serializer ends with the file *)
(* open.                                                                   *)
(***************************************************************************)
ConversionEnded == pc \in {"done", "exit"}

WasOpened == OutputFile.mode # "none"

C11_OutputReleased ==
    /\ [](AllDataArrays(InputPointData) /\ ConversionEnded
            => ~ OutputFile.open)
    /\ [][(WasOpened /\ ~ OutputFile.open) => writes' = writes]_vars

(***************************************************************************)
(* C12.  Unsupported input is rejected: for an input file name without a   *)
(* '.', or with an extension that is none of the recognised ones (vtk,     *)
(* vti, vtp, vtu; VTP and VTU, the literals of lines 231 and 236, are      *)
(* counted as recognised too), the program ends with status 1 and one of   *)
(* the three messages, no reader runs and the output file is not opened.   *)
(* The source takes every extension but vtk, vti and VTP for VTP (line     *)
(* 231).                                                                   *)
(***************************************************************************)
RecognisedExtensions == {ExtVtk, ExtVti, ExtVtp, ExtVtu, ExtVTP, ExtVTU}

Unsupported(name) ==
    \/ find_last_of_dot(name) = npos
    \/ ExtensionOf(name) \notin RecognisedExtensions

RejectionMessages ==
    {NoExtensionFound, NoValidExtension, "Invalid input file type."}

C12_UnsupportedRejected ==
    (argc >= 3 /\ pc \notin {"main", "ReadDataSetWriteToOutput"}
        /\ ~ (argc = 4 /\ atoi(Arg(3)) \notin {0, 1})
        /\ Unsupported(Arg(1)))
    => /\ pc = "exit"
       /\ exitStatus = 1
       /\ Len(stderr) = 1 /\ stderr[1] \in RejectionMessages
       /\ reader = "none"
       /\ FileUntouched

(***************************************************************************)
(* C13.  Bounds of the accessor: every call GetComponent(t, c) made by a   *)
(* serializer on array i has 0 <= i < NumberOfArrays, 0 <= t < the tuple   *)
(* count of array i and 0 <= c < the component count of array i, also when *)
(* the tuple count is 0.  Stated for point data with a data array in every *)
(* slot.  The row bound is the 64 bit tuple count of array 0 (lines 543,   *)
(* 620), while validation compared the counts as unsigned int (line 437).  *)
(***************************************************************************)
InBounds(pd, access) ==
    /\ 0 <= access[1] /\ access[1] < GetNumberOfArrays(pd)
    /\ 0 <= access[2] /\ HasTuple(GetArray(pd, access[1]), access[2])
    /\ 0 <= access[3]
    /\ access[3] < GetNumberOfComponents(GetArray(pd, access[1]))

C13_AccessorBounds ==
    AllDataArrays(InputPointData)
    => \A k \in 1..Len(reads) : InBounds(InputPointData, reads[k])

=============================================================================
